---- MODULE Spec2Model ----
(***************************************************************************)
(* FileHasher (grc/file_service/hasher.py): SHA256 digests of a file on    *)
(* disk, of a byte buffer and of a seekable stream.  The three entry       *)
(* points hash_file, hash_bytes and hash_stream are modelled together with *)
(* the shared chunked routine _compute_hash, one chunk read per step, and  *)
(* with the byte source as the environment: a read returns between one     *)
(* byte and a full chunk, or nothing at end of data, or raises; tell and   *)
(* seek succeed or raise; open succeeds or raises.                         *)
(*                                                                         *)
(* hashlib.sha256 is modelled as a block hash of the same construction     *)
(* (running chaining value, partial-block buffer, length counter, padding  *)
(* at finalisation, hexadecimal rendering) over a narrow word.             *)
(***************************************************************************)
EXTENDS Integers, Sequences, FiniteSets, TLC

VARIABLES data, pos, op, pc, file_path, fileOpen, fpos,
          current_position, sha256_hash, pending, reads,
          prev, last, fileResult, bytesResult

vars == <<data, pos, op, pc, file_path, fileOpen, fpos,
          current_position, sha256_hash, pending, reads,
          prev, last, fileResult, bytesResult>>

\* ---------------------------------------------------------------- bounds
\* Longest content of a file, buffer or stream.
MaxLen == 3
\* Bytes asked of one read (4096 in the source, scaled to the contents).
ChunkSize == 2
\* Block length of the digest function (64 for SHA256, scaled likewise).
BlockSize == 2

\* Two byte values are enough to tell any two contents apart.
Byte == 0..1
Contents == UNION {[1..n -> Byte] : n \in 0..MaxLen}

Min(a, b) == IF a < b THEN a ELSE b

\* ------------------------------------------------------- hashlib.sha256
HexDigits == <<"0", "1", "2", "3", "4", "5", "6", "7",
               "8", "9", "a", "b", "c", "d", "e", "f">>

\* The compression function: one block folded into the chaining value.
RECURSIVE Compress(_, _)
Compress(h, block) ==
    IF block = <<>> THEN h
    ELSE Compress((h * 33 + Head(block) + 1) % 256, Tail(block))

\* hashlib.sha256(): a fresh running state, whatever the previous one was.
sha256 == [h |-> 7, buf |-> <<>>, n |-> 0]

\* One byte absorbed: buffered, and compressed when the block is full.
Absorb(s, b) ==
    LET full == s.buf \o <<b>>
    IN  IF Len(full) = BlockSize
        THEN [h |-> Compress(s.h, full), buf |-> <<>>, n |-> (s.n + 1) % 256]
        ELSE [h |-> s.h, buf |-> full, n |-> (s.n + 1) % 256]

\* sha256_hash.update(chunk)
RECURSIVE update(_, _)
update(s, chunk) ==
    IF chunk = <<>> THEN s
    ELSE update(Absorb(s, Head(chunk)), Tail(chunk))

\* sha256_hash.hexdigest(): pad the partial block, mix in the length,
\* render the value as lowercase hexadecimal of fixed width.
hexdigest(s) ==
    LET padded == s.buf \o <<2>>
        v == (Compress(s.h, padded) * 33 + s.n) % 256
    IN  <<HexDigits[(v \div 16) + 1], HexDigits[(v % 16) + 1]>>

\* ------------------------------------------------------------ hash_bytes
\* Variant: only the first chunk of the buffer is digested.
hash_bytes_firstchunk(d) ==
    hexdigest(update(sha256, SubSeq(d, 1, Min(Len(d), ChunkSize))))
\* return hashlib.sha256(data).hexdigest()
hash_bytes(d) == hexdigest(update(sha256, d))

\* ------------------------------------------------------ the byte sources
NoExc == [kind |-> "none", src |-> "none", msg |-> <<>>]
Exc(k, s, m) == [kind |-> k, src |-> s, msg |-> m]
Digest(d) == [kind |-> "digest", src |-> "none", msg |-> d]

Paths == {"data.bin", "nonexistent_file.txt", "locked.bin"}

\* open(file_path, 'rb'): the handle, or the failure the platform reports.
open(p) ==
    CASE p = "data.bin" -> NoExc
      [] p = "nonexistent_file.txt" ->
            Exc("FileNotFoundError", "open", <<"[Errno 2] No such file or directory: ", p>>)
      [] OTHER ->
            Exc("PermissionError", "open", <<"[Errno 13] Permission denied: ", p>>)

\* The sizes one file_obj.read(4096) can return with `left` bytes ahead.
ReadSizes(left) == IF left <= 0 THEN {0} ELSE 1..Min(ChunkSize, left)

\* file_obj.read: the next n bytes from position p.
read(d, p, n) == SubSeq(d, p + 1, p + n)

\* Variant: the loop ends at the first chunk shorter than asked for.
IsSentinel_short(chunk) == Len(chunk) < ChunkSize
\* iter(read, b""): the loop ends at the first empty read.
IsSentinel(chunk) == chunk = <<>>

\* Variant: the stream is hashed from where it stands.
RewindPosition_stay(p) == p
\* file_obj.seek(0)
RewindPosition(p) == 0

\* Variants: no seek back; a seek to 0; a seek relative to the current
\* position (whence = SEEK_CUR).
RestorePosition_skip(saved, p) == p
RestorePosition_zero(saved, p) == 0
RestorePosition_relative(saved, p) == p + saved
\* finally: file_obj.seek(current_position)
RestorePosition(saved, p) == saved

\* Variant: except Exception.
Catches_all(exc) == exc.kind # "digest"
\* except FileNotFoundError
Catches(exc) == exc.kind = "FileNotFoundError"

\* Variant: the message leaves the path out.
NotFound_nopath(p) == Exc("FileNotFoundError", "hash_file", <<"File not found">>)
\* raise FileNotFoundError(f"File not found: {file_path}")
NotFound(p) == Exc("FileNotFoundError", "hash_file", <<"File not found: ", p>>)

\* The try/except of hash_file applied to the outcome of its body.
except_clause(outcome, p) == IF Catches(outcome) THEN NotFound(p) ELSE outcome

\* Variant: f = open(...) closed on the normal path only.
with_exit_leak(isOpen, outcome) == isOpen /\ outcome.kind # "digest"
\* with open(...) as f: the handle after the block is left.
with_exit(isOpen, outcome) == FALSE

\* ----------------------------------------------------------------- state
\* data             content of the file, of the buffer and of the stream
\* pos              position of the caller's stream
\* op, pc           the call in progress and its place in the code
\* file_path, fileOpen, fpos      hash_file: argument, handle, its position
\* current_position, sha256_hash  the locals of hash_stream, _compute_hash
\* pending          outcome of _compute_hash on its way to the caller
\* reads            lengths of the chunks read so far in this call
\* last, prev       the hash_stream calls finished since the caller last
\*                  repositioned the stream: the latest, and the outcome of
\*                  the one before it
\* fileResult, bytesResult        latest finished hash_file, hash_bytes
NoCall == [entry |-> 0, recorded |-> FALSE, restored |-> FALSE,
           outcome |-> NoExc, final |-> 0]
NoPrev == [outcome |-> NoExc, final |-> 0]
NoFile == [path |-> "", raised |-> NoExc, outcome |-> NoExc, opened |-> FALSE]
NoBytes == [outcome |-> NoExc]

Summary(call) ==
    IF call.outcome.kind = "digest"
    THEN [outcome |-> call.outcome, final |-> call.final]
    ELSE NoPrev

Init ==
    /\ data \in Contents
    /\ pos \in 0..Len(data)
    /\ op = "none"
    /\ pc = "idle"
    /\ file_path = ""
    /\ fileOpen = FALSE
    /\ fpos = 0
    /\ current_position = 0
    /\ sha256_hash = sha256
    /\ pending = NoExc
    /\ reads = <<>>
    /\ prev = NoPrev
    /\ last = NoCall
    /\ fileResult = NoFile
    /\ bytesResult = NoBytes

\* The caller repositions its stream between calls.
CallerSeek ==
    /\ pc = "idle"
    /\ \E k \in 0..Len(data) : k # pos /\ pos' = k
    /\ last' = NoCall
    /\ prev' = NoPrev
    /\ UNCHANGED <<data, op, pc, file_path, fileOpen, fpos, current_position,
                   sha256_hash, pending, reads, fileResult, bytesResult>>

\* hash_bytes(data)
HashBytes ==
    /\ pc = "idle"
    /\ bytesResult' = [outcome |-> Digest(hash_bytes(data))]
    /\ UNCHANGED <<data, pos, op, pc, file_path, fileOpen, fpos,
                   current_position, sha256_hash, pending, reads, prev, last,
                   fileResult>>

\* hash_file: open(file_path, 'rb') raises.
HashFileOpenFails ==
    /\ pc = "idle"
    /\ \E p \in Paths :
         /\ open(p) # NoExc
         /\ fileResult' = [path |-> p, raised |-> open(p),
                           outcome |-> except_clause(open(p), p),
                           opened |-> FALSE]
    /\ UNCHANGED <<data, pos, op, pc, file_path, fileOpen, fpos,
                   current_position, sha256_hash, pending, reads, prev, last,
                   bytesResult>>

\* hash_file: open(file_path, 'rb') succeeds and _compute_hash(f) starts.
HashFileOpen ==
    /\ pc = "idle"
    /\ \E p \in Paths :
         /\ open(p) = NoExc
         /\ file_path' = p
    /\ op' = "hash_file"
    /\ fileOpen' = TRUE
    /\ fpos' = 0
    /\ sha256_hash' = sha256
    /\ pc' = "reading"
    /\ UNCHANGED <<data, pos, current_position, pending, reads, prev, last,
                   fileResult, bytesResult>>

\* hash_stream: file_obj.tell() raises; nothing was recorded or moved.
HashStreamTellFails ==
    /\ pc = "idle"
    /\ prev' = Summary(last)
    /\ last' = [entry |-> pos, recorded |-> FALSE, restored |-> FALSE,
                outcome |-> Exc("OSError", "tell", <<"tell failed">>),
                final |-> pos]
    /\ UNCHANGED <<data, pos, op, pc, file_path, fileOpen, fpos,
                   current_position, sha256_hash, pending, reads,
                   fileResult, bytesResult>>

\* hash_stream: current_position = file_obj.tell()
HashStreamTell ==
    /\ pc = "idle"
    /\ op' = "hash_stream"
    /\ current_position' = pos
    /\ pc' = "rewind"
    /\ UNCHANGED <<data, pos, file_path, fileOpen, fpos, sha256_hash, pending,
                   reads, prev, last, fileResult, bytesResult>>

\* hash_stream: file_obj.seek(0) raises, outside the try block: the call
\* ends there and the finally clause is never entered.
HashStreamRewindFails ==
    /\ pc = "rewind"
    /\ prev' = Summary(last)
    /\ last' = [entry |-> current_position, recorded |-> TRUE,
                restored |-> FALSE,
                outcome |-> Exc("OSError", "seek", <<"seek failed">>),
                final |-> pos]
    /\ current_position' = 0
    /\ op' = "none"
    /\ pc' = "idle"
    /\ UNCHANGED <<data, pos, file_path, fileOpen, fpos, sha256_hash, pending,
                   reads, fileResult, bytesResult>>

\* hash_stream: file_obj.seek(0), then the try block calls _compute_hash.
HashStreamRewind ==
    /\ pc = "rewind"
    /\ pos' = RewindPosition(pos)
    /\ sha256_hash' = sha256
    /\ pc' = "reading"
    /\ UNCHANGED <<data, op, file_path, fileOpen, fpos, current_position,
                   pending, reads, prev, last, fileResult, bytesResult>>

\* Position of the source _compute_hash is reading.
SourcePos == IF op = "hash_file" THEN fpos ELSE pos

\* _compute_hash: one turn of the loop. The read moves the source; a
\* sentinel ends the loop with the digest, any other chunk is folded in.
ComputeHashRead ==
    /\ pc = "reading"
    /\ \E n \in ReadSizes(Len(data) - SourcePos) :
         LET chunk == read(data, SourcePos, n)
         IN  /\ IF op = "hash_file"
                THEN fpos' = fpos + Len(chunk) /\ pos' = pos
                ELSE pos' = pos + Len(chunk) /\ fpos' = fpos
             /\ reads' = Append(reads, Len(chunk))
             /\ IF IsSentinel(chunk)
                THEN /\ pending' = Digest(hexdigest(sha256_hash))
                     /\ pc' = "return"
                     /\ sha256_hash' = sha256_hash
                ELSE /\ sha256_hash' = update(sha256_hash, chunk)
                     /\ UNCHANGED <<pending, pc>>
    /\ UNCHANGED <<data, op, file_path, fileOpen, current_position,
                   prev, last, fileResult, bytesResult>>

\* _compute_hash: file_obj.read(4096) raises; the failure leaves the loop.
ComputeHashRaise ==
    /\ pc = "reading"
    /\ pending' = Exc("OSError", "read", <<"[Errno 5] Input/output error">>)
    /\ pc' = "return"
    /\ UNCHANGED <<data, pos, op, file_path, fileOpen, fpos,
                   current_position, sha256_hash, reads, prev, last,
                   fileResult, bytesResult>>

\* hash_file: the with block is left (handle released), the except clause
\* sees the outcome, and the call ends; its locals are gone.
HashFileExit ==
    /\ pc = "return"
    /\ op = "hash_file"
    /\ fileOpen' = with_exit(fileOpen, pending)
    /\ fileResult' = [path |-> file_path,
                      raised |-> IF pending.kind = "digest" THEN NoExc ELSE pending,
                      outcome |-> except_clause(pending, file_path),
                      opened |-> TRUE]
    /\ op' = "none"
    /\ pc' = "idle"
    /\ file_path' = ""
    /\ fpos' = 0
    /\ sha256_hash' = sha256
    /\ pending' = NoExc
    /\ reads' = <<>>
    /\ UNCHANGED <<data, pos, current_position, prev, last, bytesResult>>

\* hash_stream: finally: file_obj.seek(current_position), then the digest
\* is returned or the failure of the try block propagates.
HashStreamFinally ==
    /\ pc = "return"
    /\ op = "hash_stream"
    /\ pos' = RestorePosition(current_position, pos)
    /\ prev' = Summary(last)
    /\ last' = [entry |-> current_position, recorded |-> TRUE,
                restored |-> TRUE, outcome |-> pending,
                final |-> RestorePosition(current_position, pos)]
    /\ op' = "none"
    /\ pc' = "idle"
    /\ current_position' = 0
    /\ sha256_hash' = sha256
    /\ pending' = NoExc
    /\ reads' = <<>>
    /\ UNCHANGED <<data, file_path, fileOpen, fpos, fileResult, bytesResult>>

\* hash_stream: the seek of the finally clause raises; that failure
\* replaces the outcome of the try block and the stream stays where it is.
HashStreamFinallyFails ==
    /\ pc = "return"
    /\ op = "hash_stream"
    /\ prev' = Summary(last)
    /\ last' = [entry |-> current_position, recorded |-> TRUE,
                restored |-> TRUE,
                outcome |-> Exc("OSError", "restore", <<"seek failed">>),
                final |-> pos]
    /\ op' = "none"
    /\ pc' = "idle"
    /\ current_position' = 0
    /\ sha256_hash' = sha256
    /\ pending' = NoExc
    /\ reads' = <<>>
    /\ UNCHANGED <<data, pos, file_path, fileOpen, fpos, fileResult, bytesResult>>

Next ==
    \/ CallerSeek
    \/ HashBytes
    \/ HashFileOpenFails
    \/ HashFileOpen
    \/ HashStreamTellFails
    \/ HashStreamTell
    \/ HashStreamRewindFails
    \/ HashStreamRewind
    \/ ComputeHashRead
    \/ ComputeHashRaise
    \/ HashFileExit
    \/ HashStreamFinally
    \/ HashStreamFinallyFails

Spec == Init /\ [][Next]_vars

TypeOK ==
    /\ data \in Contents
    /\ pos \in 0..Len(data)
    /\ fpos \in 0..Len(data)
    /\ pc \in {"idle", "rewind", "reading", "return"}
    /\ op \in {"none", "hash_file", "hash_stream"}
    /\ fileOpen \in BOOLEAN

\* ---------------------------------------------------------------- claims
IsDigest(outcome) == outcome.kind = "digest"

\* A hash_stream call has finished and the stream was not touched since.
StreamCallEnded == op # "hash_stream" /\ last.outcome # NoExc

RECURSIVE Sum(_)
Sum(seq) == IF seq = <<>> THEN 0 ELSE Head(seq) + Sum(Tail(seq))

\* The bytes _compute_hash has taken from its source in the current call.
BytesRead == SubSeq(data, SourcePos - Sum(reads) + 1, SourcePos)

Contains(msg, p) == \E i \in DOMAIN msg : msg[i] = p

C2_WholeContent ==
    (StreamCallEnded /\ IsDigest(last.outcome))
        => last.outcome.msg = hexdigest(update(sha256, data))

\* A digest returned by a call entered at the end of the longest content.
C2_Witness ==
    /\ StreamCallEnded
    /\ IsDigest(last.outcome)
    /\ Len(data) = MaxLen
    /\ last.entry = Len(data)
    /\ last.outcome.msg = hexdigest(update(sha256, data))

\* C3: whatever the split of the bytes into non-empty chunks of at most
\* ChunkSize bytes, ended by an empty read, _compute_hash yields the digest
\* hash_bytes gives for those bytes in one shot.
C3_ChunkIndependence ==
    (pc = "return" /\ IsDigest(pending))
        => pending.msg = hash_bytes(BytesRead)

\* A digest computed from two chunks of different lengths and the empty read.
C3_Witness ==
    /\ pc = "return"
    /\ IsDigest(pending)
    /\ Len(reads) = 3
    /\ reads[1] < reads[2]
    /\ pending.msg = hash_bytes(data)

\* C4: hash_file on a file holding the content, hash_bytes of the content
\* and hash_stream on a stream wrapping it return the same digest.
C4_MethodsAgree ==
    /\ (IsDigest(fileResult.outcome) /\ IsDigest(bytesResult.outcome))
          => fileResult.outcome.msg = bytesResult.outcome.msg
    /\ (StreamCallEnded /\ IsDigest(last.outcome) /\ IsDigest(bytesResult.outcome))
          => last.outcome.msg = bytesResult.outcome.msg
    /\ (StreamCallEnded /\ IsDigest(last.outcome) /\ IsDigest(fileResult.outcome))
          => last.outcome.msg = fileResult.outcome.msg

\* All three entry points have returned a digest of a content of several chunks.
C4_Witness ==
    /\ StreamCallEnded
    /\ IsDigest(last.outcome)
    /\ IsDigest(fileResult.outcome)
    /\ IsDigest(bytesResult.outcome)
    /\ Len(data) > ChunkSize
    /\ last.outcome.msg = fileResult.outcome.msg
    /\ fileResult.outcome.msg = bytesResult.outcome.msg

\* C5: once hash_stream has recorded the entry position, no exit path
\* leaves the call without executing the restoring seek, the failure of
\* the seek to position 0 included.
C5_RestoreOnEveryExit ==
    (StreamCallEnded /\ last.recorded) => last.restored

\* C6: hash_file on a path that does not exist fails with
\* FileNotFoundError, returns no digest, and the message contains the path.
C6_NotFound ==
    (fileResult.path # "" /\ open(fileResult.path).kind = "FileNotFoundError")
        => /\ fileResult.outcome.kind = "FileNotFoundError"
           /\ Contains(fileResult.outcome.msg, fileResult.path)

\* hash_file raised its own FileNotFoundError for the missing path.
C6_Witness ==
    /\ fileResult.path = "nonexistent_file.txt"
    /\ fileResult.outcome.kind = "FileNotFoundError"
    /\ fileResult.outcome.src = "hash_file"

\* C7: a failure of hash_file other than the path not existing reaches the
\* caller as it was raised: not as FileNotFoundError, not swallowed, and
\* with no digest returned.
C7_OtherFailuresPropagate ==
    (fileResult.raised.kind \notin {"none", "FileNotFoundError"})
        => /\ fileResult.outcome = fileResult.raised
           /\ fileResult.outcome.kind \in {"PermissionError", "OSError"}

\* A chunk read failed on an opened file and the caller got that failure.
C7_Witness ==
    /\ fileResult.opened
    /\ fileResult.raised.src = "read"
    /\ fileResult.outcome.kind = "OSError"

\* C8: hash_file holds its handle only while it runs: the handle is closed
\* when the call has ended, with a digest or with a failed read, and none
\* is held when the open failed.
C8_HandleReleased ==
    op # "hash_file" => ~fileOpen

\* hash_file ended on a failed read of an opened file, handle closed.
C8_Witness ==
    /\ op = "none"
    /\ fileResult.opened
    /\ ~IsDigest(fileResult.outcome)
    /\ ~fileOpen

\* C9: two hash_stream calls in a row on the same stream, nothing done to
\* it in between, return the same digest and leave it at the same position.
C9_Idempotent ==
    (StreamCallEnded /\ IsDigest(prev.outcome) /\ IsDigest(last.outcome))
        => /\ last.outcome.msg = prev.outcome.msg
           /\ last.final = prev.final

\* Two calls in a row, entered mid-stream, both returned a digest.
C9_Witness ==
    /\ StreamCallEnded
    /\ IsDigest(prev.outcome)
    /\ IsDigest(last.outcome)
    /\ last.entry > 0
    /\ last.entry < Len(data)

====
